---- MODULE Spec2Model ----
(***************************************************************************)
(* Tar wrapper of the gcs-cache action: negotiation of the compression     *)
(* method (getTarCompressionMethod, possibleWithLz4, possibleWithZstd),    *)
(* archive creation (createTar) and extraction (extractTar).               *)
(*                                                                         *)
(* JavaScript strings that the code inspects (the probes' stdout) are      *)
(* sequences of one-character strings, so that trim, toLowerCase, includes *)
(* and the two regular expressions are computed as the code computes them. *)
(* Strings the code only passes on (enum literals, tar arguments) are TLA+ *)
(* strings.                                                                *)
(***************************************************************************)
EXTENDS Integers, Sequences, FiniteSets, TLC

----------------------------------------------------------------------------
(* enum CompressionMethod *)
GZIP == "gzip"
ZSTD_WITHOUT_LONG == "zstd (without long)"
ZSTD == "zstd"
LZ4 == "lz4"
CompressionMethod == {GZIP, ZSTD_WITHOUT_LONG, ZSTD, LZ4}

(* JavaScript null (possibleWith* results, an unset method) and undefined   *)
(* (the value of a switch that matched no case).                            *)
NULL == "null"
Undefined == <<"undefined">>

(* const ZSTD_WITHOUT_LONG_VERSION = '1.3.2' *)
ZSTD_WITHOUT_LONG_VERSION == <<"1", ".", "3", ".", "2">>

----------------------------------------------------------------------------
(* Character data *)
UPPER == <<"A", "B", "C", "D", "E", "F", "G", "H", "I", "J", "K", "L", "M", "N", "O", "P", "Q", "R", "S", "T", "U", "V", "W", "X", "Y", "Z">>
LOWER == <<"a", "b", "c", "d", "e", "f", "g", "h", "i", "j", "k", "l", "m", "n", "o", "p", "q", "r", "s", "t", "u", "v", "w", "x", "y", "z">>
DIGITS == <<"0", "1", "2", "3", "4", "5", "6", "7", "8", "9">>
WhiteSpace == {" ", "\n", "\t"}

(* the two signatures the probes look for *)
SigZstd == <<"z", "s", "t", "d", " ", "c", "o", "m", "m", "a", "n", "d", " ", "l", "i", "n", "e", " ", "i", "n", "t", "e", "r", "f", "a", "c", "e">>
SigLz4 == <<"l", "z", "4", " ", "c", "o", "m", "m", "a", "n", "d", " ", "l", "i", "n", "e", " ", "i", "n", "t", "e", "r", "f", "a", "c", "e">>

IsDigit(c) == \E d \in 1..Len(DIGITS) : DIGITS[d] = c
DigitValue(c) == (CHOOSE d \in 1..Len(DIGITS) : DIGITS[d] = c) - 1

(* String.prototype.toLowerCase *)
LowerChar(c) ==
    IF \E k \in 1..Len(UPPER) : UPPER[k] = c
    THEN LOWER[CHOOSE k \in 1..Len(UPPER) : UPPER[k] = c]
    ELSE c
toLowerCase(s) == [i \in 1..Len(s) |-> LowerChar(s[i])]

(* String.prototype.includes *)
includes(s, needle) ==
    \E i \in 0..(Len(s) - Len(needle)) : SubSeq(s, i + 1, i + Len(needle)) = needle

(* String.prototype.trim *)
trim(s) ==
    LET keep == {i \in 1..Len(s) : s[i] \notin WhiteSpace}
    IN  IF keep = {} THEN <<>>
        ELSE SubSeq(s, CHOOSE i \in keep : \A j \in keep : i <= j,
                       CHOOSE i \in keep : \A j \in keep : j <= i)

----------------------------------------------------------------------------
(* The regular expressions  /v(\d+(?:\.\d+){0,})/  and  /(\d+(?:\.\d+){0,})/ *)

(* last index of the greedy \d+ that starts at i (s[i] is a digit) *)
RECURSIVE DigitsEnd(_, _)
DigitsEnd(s, i) ==
    IF i + 1 <= Len(s) /\ IsDigit(s[i + 1]) THEN DigitsEnd(s, i + 1) ELSE i

(* last index after the greedy (?:\.\d+){0,} that follows index j *)
RECURSIVE GroupsEnd(_, _)
GroupsEnd(s, j) ==
    IF j + 2 <= Len(s) /\ s[j + 1] = "." /\ IsDigit(s[j + 2])
    THEN GroupsEnd(s, DigitsEnd(s, j + 2))
    ELSE j

(* the capture group 1 of the leftmost match whose \d+ starts at one of     *)
(* `starts`; found = FALSE is a null match (extractedVersion ? ... : null)  *)
CaptureAt(s, starts) ==
    IF starts = {} THEN [found |-> FALSE, text |-> <<>>]
    ELSE LET i == CHOOSE a \in starts : \A b \in starts : a <= b
         IN  [found |-> TRUE, text |-> SubSeq(s, i, GroupsEnd(s, DigitsEnd(s, i)))]

(* /v(\d+(?:\.\d+){0,})/.exec(out) *)
zstdVersionRegex(out) ==
    CaptureAt(out, {i \in 2..Len(out) : out[i - 1] = "v" /\ IsDigit(out[i])})

(* /(\d+(?:\.\d+){0,})/.exec(out) *)
lz4VersionRegex(out) ==
    CaptureAt(out, {i \in 1..Len(out) : IsDigit(out[i])})

----------------------------------------------------------------------------
(* semver: new SemVer(version) in strict mode and semver.lt                 *)

(* the dot-separated components of a string of digits and dots *)
RECURSIVE SplitDots(_)
SplitDots(s) ==
    IF \A i \in 1..Len(s) : s[i] # "." THEN <<s>>
    ELSE LET d == CHOOSE i \in 1..Len(s) : s[i] = "." /\ \A j \in 1..(i - 1) : s[j] # "."
         IN  <<SubSeq(s, 1, d - 1)>> \o SplitDots(SubSeq(s, d + 1, Len(s)))

(* NUMERICIDENTIFIER  0|[1-9]\d*  *)
IsNumericIdentifier(p) ==
    /\ Len(p) >= 1
    /\ \A i \in 1..Len(p) : IsDigit(p[i])
    /\ (Len(p) > 1 => p[1] # "0")

RECURSIVE ParseInt(_)
ParseInt(p) ==
    IF Len(p) = 0 THEN 0
    ELSE 10 * ParseInt(SubSeq(p, 1, Len(p) - 1)) + DigitValue(p[Len(p)])

(* a version of digits and dots is valid exactly as MAJOR.MINOR.PATCH *)
semverValid(v) ==
    LET parts == SplitDots(v)
    IN  Len(parts) = 3 /\ \A k \in 1..3 : IsNumericIdentifier(parts[k])

semverParts(v) == [k \in 1..3 |-> ParseInt(SplitDots(v)[k])]

(* compareMain(a, b) < 0 *)
compareLt(a, b) ==
    \/ a[1] < b[1]
    \/ a[1] = b[1] /\ a[2] < b[2]
    \/ a[1] = b[1] /\ a[2] = b[2] /\ a[3] < b[3]

(* semver.lt(a, b): the SemVer constructor throws TypeError("Invalid       *)
(* Version") on a string that is not a full version                         *)
semverLt(a, b) ==
    IF semverValid(a) /\ semverValid(b)
    THEN [kind |-> "return", lt |-> compareLt(semverParts(a), semverParts(b))]
    ELSE [kind |-> "throw", lt |-> FALSE]

----------------------------------------------------------------------------
(* The host: what `zstd --version` and `lz4 --version` do on a runner.      *)
(* A tool is absent from PATH (present = FALSE), or runs, writes `banner`   *)
(* with `version` to its stdout and exits with exitCode.                    *)

RECURSIVE Decimal(_)
Decimal(n) ==
    IF n < 10 THEN <<DIGITS[n + 1]>> ELSE Decimal(n \div 10) \o <<DIGITS[(n % 10) + 1]>>

RECURSIVE JoinDots(_)
JoinDots(parts) ==
    IF Len(parts) = 0 THEN <<>>
    ELSE IF Len(parts) = 1 THEN Decimal(parts[1])
    ELSE Decimal(parts[1]) \o <<".">> \o JoinDots(Tail(parts))

(* "*** <name> 64-bits v<version>, by Yann Collet ***\n"; a tool that       *)
(* prints no version omits the v token                                      *)
Banner(name, version) ==
    <<"*", "*", "*", " ">> \o name \o <<" ", "6", "4", "-", "b", "i", "t", "s">>
    \o (IF Len(version) = 0 THEN <<>> ELSE <<" ", "v">> \o JoinDots(version))
    \o <<",", " ", "b", "y", " ", "Y", "a", "n", "n", " ", "C", "o", "l", "l", "e", "t", " ", "*", "*", "*", "\n">>

ZstdNames ==
    [cli |-> SigZstd,
     mixed |-> <<"Z", "S", "T", "D", " ", "C", "o", "m", "m", "a", "n", "d", " ", "L", "i", "n", "e", " ", "I", "n", "t", "e", "r", "f", "a", "c", "e">>,
     other |-> <<"p", "z", "s", "t", "d", " ", "w", "r", "a", "p", "p", "e", "r">>]
Lz4Names ==
    [cli |-> <<"L", "Z", "4", " ", "c", "o", "m", "m", "a", "n", "d", " ", "l", "i", "n", "e", " ", "i", "n", "t", "e", "r", "f", "a", "c", "e">>,
     other |-> <<"l", "z", "4", "c", " ", "l", "e", "g", "a", "c", "y">>]

Absent == [present |-> FALSE, banner |-> "cli", version |-> <<>>, exitCode |-> 0]

(* zstd binaries a runner may carry: no version token, tokens of one, two,  *)
(* three and four components, around the 1.3.2 threshold                    *)
ZstdVersions ==
    {<<>>, <<1>>, <<1, 4>>, <<1, 3, 1>>, <<1, 3, 2>>, <<1, 10, 0>>, <<1, 2, 3, 4>>}
ZstdTools ==
    {Absent}
    \cup {[present |-> TRUE, banner |-> "cli", version |-> v, exitCode |-> 0] : v \in ZstdVersions}
    \cup {[present |-> TRUE, banner |-> "mixed", version |-> <<1, 4, 4>>, exitCode |-> 0],
          [present |-> TRUE, banner |-> "other", version |-> <<1, 4, 4>>, exitCode |-> 0],
          [present |-> TRUE, banner |-> "other", version |-> <<1, 4, 4>>, exitCode |-> 1],
          [present |-> TRUE, banner |-> "cli", version |-> <<1, 4, 4>>, exitCode |-> 1]}
Lz4Tools ==
    {Absent,
     [present |-> TRUE, banner |-> "cli", version |-> <<1, 9, 2>>, exitCode |-> 0],
     [present |-> TRUE, banner |-> "cli", version |-> <<>>, exitCode |-> 1],
     [present |-> TRUE, banner |-> "other", version |-> <<1, 9, 2>>, exitCode |-> 0],
     [present |-> TRUE, banner |-> "other", version |-> <<>>, exitCode |-> 1]}

ZstdStdout(tool) == Banner(ZstdNames[tool.banner], tool.version)
Lz4Stdout(tool) == Banner(Lz4Names[tool.banner], tool.version)

Platforms == {"linux", "win32"}
(* state.compressionMethod: the compression-method input, '' when unset *)
Preferences == {"", GZIP, LZ4, ZSTD}

(* the tags extractTar may be handed: the four literals, and tags that are  *)
(* none of them                                                             *)
MethodTags == CompressionMethod \cup {"brotli"}
ArchivePaths == {"/tmp/cache.tar"}
Cwds == {"/home/runner/work"}
PathLists == {<<"node_modules", "dist">>}
(* tar's exit status: 0 success, 1 some files differ, 2 fatal error *)
TarExitCodes == {0, 1, 2}

----------------------------------------------------------------------------
VARIABLES
    platform,           \* process.platform
    preference,         \* getState().compressionMethod
    lz4Tool,            \* what `lz4 --version` does on this host
    zstdTool,           \* what `zstd --version` does on this host
    op,                 \* the operation in progress: "none", "createTar", "extractTar"
    pc,                 \* the await the operation is suspended at
    input,              \* the operation's arguments
    compressionMethod,  \* createTar's local: the value negotiation returned
    procs,              \* child processes of this operation, in order of start and end
    tarArgv,            \* the argument vector tar was started with
    tarResult,          \* tar's exit, once it has ended
    outcome,            \* how the operation's promise settled
    archive,            \* the archive at archivePath and the tag persisted with it
    prevExtract         \* the extraction command built by the previous extractTar

vars == <<platform, preference, lz4Tool, zstdTool, op, pc, input, compressionMethod,
          procs, tarArgv, tarResult, outcome, archive, prevExtract>>
host == <<platform, preference, lz4Tool, zstdTool>>

Pending == [kind |-> "pending", value |-> NULL, error |-> ""]
Return(v) == [kind |-> "return", value |-> v, error |-> ""]
Throw(e) == [kind |-> "throw", value |-> NULL, error |-> e]

NotRun == [ended |-> FALSE, exitCode |-> 0]
NoInput == [archivePath |-> "", paths |-> <<>>, cwd |-> "", method |-> NULL]
NoArchive == [exists |-> FALSE, tag |-> NULL, encodedWith |-> <<>>]
NoExtract == [exists |-> FALSE, input |-> NoInput, argv |-> <<>>, platform |-> ""]

Started(cmd) == [cmd |-> cmd, ev |-> "start"]
Ended(cmd) == [cmd |-> cmd, ev |-> "end"]

----------------------------------------------------------------------------
(* getExecOutput without ignoreReturnCode: a non-zero exit rejects *)
getExecOutput_RejectsNonZero(tool, stdout) ==
    IF tool.present /\ tool.exitCode = 0
    THEN [kind |-> "resolve", stdout |-> stdout, exitCode |-> tool.exitCode]
    ELSE [kind |-> "reject", stdout |-> <<>>, exitCode |-> 0]

(* exec.getExecOutput(tool, ['--version'], {ignoreReturnCode: true,         *)
(* silent: true}): rejects when the binary cannot be started; resolves      *)
(* with the captured stdout whatever the exit code                          *)
getExecOutput(tool, stdout) ==
    IF tool.present
    THEN [kind |-> "resolve", stdout |-> stdout, exitCode |-> tool.exitCode]
    ELSE [kind |-> "reject", stdout |-> <<>>, exitCode |-> 0]

(* exec.exec with ignoreReturnCode: the exit code is not looked at *)
execSettles_IgnoresExitCode(exitCode) == "resolve"

(* exec.exec('tar', argv): ignoreReturnCode is not set, so a non-zero exit  *)
(* rejects the promise                                                      *)
execSettles(exitCode) == IF exitCode = 0 THEN "resolve" ELSE "reject"

(* .then(out => out.stdout.trim()).then(out => [out, version]).catch(() =>  *)
(* ['', null]) of possibleWithZstd                                          *)
zstdProbe(tool) ==
    LET r == getExecOutput(tool, ZstdStdout(tool))
    IN  IF r.kind = "reject" THEN [out |-> <<>>, version |-> [found |-> FALSE, text |-> <<>>]]
        ELSE [out |-> trim(r.stdout), version |-> zstdVersionRegex(trim(r.stdout))]

(* the same chain of possibleWithLz4 *)
lz4Probe(tool) ==
    LET r == getExecOutput(tool, Lz4Stdout(tool))
    IN  IF r.kind = "reject" THEN [out |-> <<>>, version |-> [found |-> FALSE, text |-> <<>>]]
        ELSE [out |-> trim(r.stdout), version |-> lz4VersionRegex(trim(r.stdout))]

(* possibleWithZstd: the method, null, or the exception semver.lt throws *)
possibleWithZstd(tool) ==
    LET p == zstdProbe(tool)
    IN  IF ~includes(toLowerCase(p.out), SigZstd) THEN Return(NULL)
        ELSE IF ~p.version.found THEN Return(ZSTD_WITHOUT_LONG)
        ELSE LET c == semverLt(p.version.text, ZSTD_WITHOUT_LONG_VERSION)
             IN  IF c.kind = "throw" THEN Throw("TypeError: Invalid Version")
                 ELSE IF c.lt THEN Return(ZSTD_WITHOUT_LONG)
                 ELSE Return(ZSTD)

(* possibleWithLz4 without toLowerCase *)
possibleWithLz4_CaseSensitive(tool) ==
    IF ~includes(lz4Probe(tool).out, SigLz4) THEN NULL ELSE LZ4

(* possibleWithLz4: lz4 or null; _lz4Version is not read *)
possibleWithLz4(tool) ==
    LET p == lz4Probe(tool)
    IN  IF ~includes(toLowerCase(p.out), SigLz4) THEN NULL ELSE LZ4

(* getTarCompressionMethod without the preference override *)
returnsGzipUnprobed_WindowsOnly(plat, pref) == plat = "win32"

(* getTarCompressionMethod, lines 18-25: the two returns before any probe *)
returnsGzipUnprobed(plat, pref) == plat = "win32" \/ pref = GZIP

(* getTarCompressionMethod, line 29 *)
returnsLz4(lz4, pref) == lz4 # NULL /\ pref = LZ4

(* buildCompressionArgs with the zstd row missing its window *)
buildCompressionArgs_ZstdNoLong(method) ==
    CASE method = GZIP -> <<"-z">>
      [] method = ZSTD_WITHOUT_LONG -> <<"--use-compress-program", "zstd -T0">>
      [] method = ZSTD -> <<"--use-compress-program", "zstd -T0">>
      [] method = LZ4 -> <<"--use-compress-program", "lz4 --fast -BD">>
      [] OTHER -> Undefined

buildCompressionArgs(method) ==
    CASE method = GZIP -> <<"-z">>
      [] method = ZSTD_WITHOUT_LONG -> <<"--use-compress-program", "zstd -T0">>
      [] method = ZSTD -> <<"--use-compress-program", "zstd -T0 --long=30">>
      [] method = LZ4 -> <<"--use-compress-program", "lz4 --fast -BD">>
      [] OTHER -> Undefined

(* buildDecompressionArgs with the lz4 row decoding with zstd *)
buildDecompressionArgs_Lz4AsZstd(method) ==
    CASE method = GZIP -> <<"-z">>
      [] method = ZSTD_WITHOUT_LONG -> <<"--use-compress-program", "zstd -d">>
      [] method = ZSTD -> <<"--use-compress-program", "zstd -d --long=30">>
      [] method = LZ4 -> <<"--use-compress-program", "zstd -d">>
      [] OTHER -> Undefined

(* buildDecompressionArgs that falls back to gzip on Windows, as creation   *)
(* does                                                                     *)
buildDecompressionArgs_ByPlatform(method) ==
    CASE platform = "win32" /\ method \in CompressionMethod -> <<"-z">>
      [] method = GZIP -> <<"-z">>
      [] method = ZSTD_WITHOUT_LONG -> <<"--use-compress-program", "zstd -d">>
      [] method = ZSTD -> <<"--use-compress-program", "zstd -d --long=30">>
      [] method = LZ4 -> <<"--use-compress-program", "lz4 -d">>
      [] OTHER -> Undefined

buildDecompressionArgs(method) ==
    CASE method = GZIP -> <<"-z">>
      [] method = ZSTD_WITHOUT_LONG -> <<"--use-compress-program", "zstd -d">>
      [] method = ZSTD -> <<"--use-compress-program", "zstd -d --long=30">>
      [] method = LZ4 -> <<"--use-compress-program", "lz4 -d">>
      [] OTHER -> Undefined

(* the array literals of createTar and extractTar *)
createArgv(compressionArgs, in) ==
    <<"-c">> \o compressionArgs \o <<"--posix", "-P", "-f", in.archivePath, "-C", in.cwd>> \o in.paths
extractArgv(compressionArgs, in) ==
    <<"-x">> \o compressionArgs \o <<"-P", "-f", in.archivePath, "-C", in.cwd>>

(* the program a set of compression arguments makes tar run, in words *)
ProgramWords(args) ==
    CASE args = <<"-z">> -> <<"gzip">>
      [] args[2] = "zstd -T0" -> <<"zstd", "-T0">>
      [] args[2] = "zstd -T0 --long=30" -> <<"zstd", "-T0", "--long=30">>
      [] args[2] = "lz4 --fast -BD" -> <<"lz4", "--fast", "-BD">>
      [] args[2] = "zstd -d" -> <<"zstd", "-d">>
      [] args[2] = "zstd -d --long=30" -> <<"zstd", "-d", "--long=30">>
      [] args[2] = "lz4 -d" -> <<"lz4", "-d">>
      [] OTHER -> <<"">>
Family(args) == ProgramWords(args)[1]
(* what tar can exit with when extractTar runs it with these compression   *)
(* arguments: it fails when there is no archive, and when the decoder it    *)
(* pipes through cannot read the archive's encoding; gzip and lz4 read only *)
(* their own format, while a zstd built with gzip and lz4 support reads     *)
(* those formats too, so whether zstd fails on them depends on the host     *)
extractExitCodes(compressionArgs) ==
    IF ~archive.exists THEN TarExitCodes \ {0}
    ELSE IF Family(compressionArgs) \in {Family(archive.encodedWith), "zstd"}
    THEN TarExitCodes
    ELSE TarExitCodes \ {0}

----------------------------------------------------------------------------
(* the compression arguments inside an argument vector: what stands between *)
(* the mode flag and the first constant flag                                *)
CompressionArgsOf(argv) ==
    LET stop == CHOOSE i \in 2..Len(argv) :
                    /\ argv[i] \in {"--posix", "-P"}
                    /\ \A j \in 2..(i - 1) : argv[j] \notin {"--posix", "-P"}
    IN  SubSeq(argv, 2, stop - 1)

Init ==
    /\ platform \in Platforms
    /\ preference \in Preferences
    /\ lz4Tool \in Lz4Tools
    /\ zstdTool \in ZstdTools
    /\ op = "none"
    /\ pc = "idle"
    /\ input = NoInput
    /\ compressionMethod = NULL
    /\ procs = <<>>
    /\ tarArgv = <<>>
    /\ tarResult = NotRun
    /\ outcome = Pending
    /\ archive = NoArchive
    /\ prevExtract = NoExtract

(* createTar, lines 96-108: once negotiation has returned `method`, the     *)
(* arguments are built and tar is started                                   *)
tarStarts(method, in, pr) ==
    /\ compressionMethod' = method
    /\ tarArgv' = createArgv(buildCompressionArgs(method), in)
    /\ procs' = Append(pr, Started("tar"))
    /\ pc' = "tar"

(* createTar is called: getTarCompressionMethod runs up to its first await  *)
createTar(archivePath, paths, cwd) ==
    LET in == [archivePath |-> archivePath, paths |-> paths, cwd |-> cwd, method |-> NULL]
    IN  /\ pc = "idle"
        /\ op' = "createTar"
        /\ input' = in
        /\ IF returnsGzipUnprobed(platform, preference)
           THEN tarStarts(GZIP, in, <<>>)
           ELSE /\ procs' = <<Started("lz4")>>
                /\ pc' = "lz4"
                /\ UNCHANGED <<compressionMethod, tarArgv>>
        /\ UNCHANGED <<host, tarResult, outcome, archive, prevExtract>>

(* `await possibleWithLz4()` resumes: line 29, then the zstd probe starts *)
lz4ProbeSettles ==
    /\ op = "createTar" /\ pc = "lz4"
    /\ LET lz4 == possibleWithLz4(lz4Tool)
           pr == Append(procs, Ended("lz4"))
       IN  IF returnsLz4(lz4, preference)
           THEN tarStarts(lz4, input, pr)
           ELSE /\ procs' = Append(pr, Started("zstd"))
                /\ pc' = "zstd"
                /\ UNCHANGED <<compressionMethod, tarArgv>>
    /\ UNCHANGED <<host, op, input, tarResult, outcome, archive, prevExtract>>

(* `await possibleWithZstd()` resumes: lines 35-40; an exception thrown in  *)
(* possibleWithZstd rejects getTarCompressionMethod and createTar           *)
zstdProbeSettles ==
    /\ op = "createTar" /\ pc = "zstd"
    /\ LET zstd == possibleWithZstd(zstdTool)
           pr == Append(procs, Ended("zstd"))
       IN  IF zstd.kind = "throw"
           THEN /\ outcome' = zstd
                /\ procs' = pr
                /\ pc' = "done"
                /\ UNCHANGED <<compressionMethod, tarArgv>>
           ELSE /\ tarStarts(IF zstd.value # NULL THEN zstd.value ELSE GZIP, input, pr)
                /\ UNCHANGED outcome
    /\ UNCHANGED <<host, op, input, tarResult, archive, prevExtract>>

(* `await exec.exec('tar', ...)` of createTar settles: line 110 *)
createTarSettles(exitCode) ==
    /\ op = "createTar" /\ pc = "tar"
    /\ tarResult' = [ended |-> TRUE, exitCode |-> exitCode]
    /\ procs' = Append(procs, Ended("tar"))
    /\ outcome' = IF execSettles(exitCode) = "resolve"
                  THEN Return(compressionMethod)
                  ELSE Throw("Error: The process 'tar' failed")
    /\ pc' = "done"
    /\ UNCHANGED <<host, op, input, compressionMethod, tarArgv, archive, prevExtract>>

(* extractTar is called: the arguments are built and tar is started; the    *)
(* spread of an undefined compressionArgs throws a TypeError                *)
extractTar(archivePath, method, cwd) ==
    LET in == [archivePath |-> archivePath, paths |-> <<>>, cwd |-> cwd, method |-> method]
        compressionArgs == buildDecompressionArgs(method)
    IN  /\ pc = "idle"
        /\ op' = "extractTar"
        /\ input' = in
        /\ IF compressionArgs = Undefined
           THEN /\ outcome' = Throw("TypeError: compressionArgs is not iterable")
                /\ pc' = "done"
                /\ UNCHANGED <<tarArgv, procs>>
           ELSE /\ tarArgv' = extractArgv(compressionArgs, in)
                /\ procs' = <<Started("tar")>>
                /\ pc' = "tar"
                /\ UNCHANGED outcome
        /\ UNCHANGED <<host, compressionMethod, tarResult, archive, prevExtract>>

(* `await exec.exec('tar', ...)` of extractTar settles *)
extractTarSettles(exitCode) ==
    /\ op = "extractTar" /\ pc = "tar"
    /\ exitCode \in extractExitCodes(CompressionArgsOf(tarArgv))
    /\ tarResult' = [ended |-> TRUE, exitCode |-> exitCode]
    /\ procs' = Append(procs, Ended("tar"))
    /\ outcome' = IF execSettles(exitCode) = "resolve"
                  THEN Return("void")
                  ELSE Throw("Error: The process 'tar' failed")
    /\ pc' = "done"
    /\ UNCHANGED <<host, op, input, compressionMethod, tarArgv, archive, prevExtract>>

(* the promise is handed back to the caller: after a createTar that         *)
(* returned, the caller persists the returned tag with the archive tar      *)
(* wrote; the command of an extractTar is remembered for the next one       *)
operationEnds ==
    /\ pc = "done"
    /\ archive' = IF op = "createTar" /\ outcome.kind = "return"
                  THEN [exists |-> TRUE, tag |-> outcome.value,
                        encodedWith |-> CompressionArgsOf(tarArgv)]
                  ELSE archive
    /\ prevExtract' = IF op = "extractTar" /\ tarArgv # <<>>
                      THEN [exists |-> TRUE, input |-> input, argv |-> tarArgv,
                            platform |-> platform]
                      ELSE prevExtract
    /\ op' = "none"
    /\ pc' = "idle"
    /\ input' = NoInput
    /\ compressionMethod' = NULL
    /\ procs' = <<>>
    /\ tarArgv' = <<>>
    /\ tarResult' = NotRun
    /\ outcome' = Pending
    /\ UNCHANGED host

(* the next run happens on another runner *)
newHost ==
    /\ pc = "idle"
    /\ platform' \in Platforms
    /\ preference' \in Preferences
    /\ lz4Tool' \in Lz4Tools
    /\ zstdTool' \in ZstdTools
    /\ UNCHANGED <<op, pc, input, compressionMethod, procs, tarArgv, tarResult, outcome,
                   archive, prevExtract>>

Next ==
    \/ \E a \in ArchivePaths, p \in PathLists, c \in Cwds : createTar(a, p, c)
    \/ lz4ProbeSettles
    \/ zstdProbeSettles
    \/ \E e \in TarExitCodes : createTarSettles(e)
    \/ \E a \in ArchivePaths, m \in MethodTags, c \in Cwds : extractTar(a, m, c)
    \/ \E e \in TarExitCodes : extractTarSettles(e)
    \/ operationEnds
    \/ newHost

Spec == Init /\ [][Next]_vars

----------------------------------------------------------------------------
(* Vocabulary of the properties *)

StartsOf(cmd) == {i \in DOMAIN procs : procs[i] = Started(cmd)}
EndsOf(cmd) == {i \in DOMAIN procs : procs[i] = Ended(cmd)}
ProbeStarts == StartsOf("lz4") \cup StartsOf("zstd")

(* createTar's negotiation is over: tar was started or createTar settled *)
NegotiationOver == op = "createTar" /\ pc \in {"tar", "done"}

(* the probe's stdout carries the tool's signature, in any case of letters *)
Lz4Signed == lz4Tool.present /\ includes(toLowerCase(Lz4Stdout(lz4Tool)), SigLz4)
ZstdSigned == zstdTool.present /\ includes(toLowerCase(ZstdStdout(zstdTool)), SigZstd)

(* a version token of any number of components against 1.3.2, a missing    *)
(* component read as 0                                                      *)
AtLeast132(v) ==
    LET c(k) == IF k <= Len(v) THEN v[k] ELSE 0
    IN  \/ c(1) > 1
        \/ c(1) = 1 /\ c(2) > 3
        \/ c(1) = 1 /\ c(2) = 3 /\ c(3) >= 2

LongWindow(args) == \E k \in DOMAIN ProgramWords(args) : ProgramWords(args)[k] = "--long=30"
MethodFamily(m) == IF m \in {ZSTD, ZSTD_WITHOUT_LONG} THEN "zstd" ELSE m

(* the table of compression flags, by method *)
CreationFlags ==
    [m \in CompressionMethod |->
        CASE m = GZIP -> <<"-z">>
          [] m = ZSTD_WITHOUT_LONG -> <<"--use-compress-program", "zstd -T0">>
          [] m = ZSTD -> <<"--use-compress-program", "zstd -T0 --long=30">>
          [] m = LZ4 -> <<"--use-compress-program", "lz4 --fast -BD">>]

----------------------------------------------------------------------------
(* C1: on Windows, or with the preference gzip, negotiation returns gzip    *)
(* and runs neither probe, whatever the preference and the tools are.       *)
C1_ShortCircuit ==
    (op = "createTar" /\ (platform = "win32" \/ preference = GZIP))
        => (compressionMethod = GZIP /\ ProbeStarts = {})

C1_Witness ==
    /\ op = "createTar" /\ platform = "linux" /\ preference = GZIP
    /\ Lz4Signed /\ ZstdSigned
    /\ outcome = Return(GZIP)

(* C2: off Windows, with the preference lz4 and an lz4 probe output that    *)
(* carries the signature in any case of letters, negotiation returns lz4    *)
(* without asking for zstd, whatever version lz4 printed.                   *)
C2_Lz4Preferred ==
    (NegotiationOver /\ platform # "win32" /\ preference = LZ4 /\ Lz4Signed)
        => (compressionMethod = LZ4 /\ StartsOf("zstd") = {})

C2_Witness ==
    /\ NegotiationOver /\ platform # "win32" /\ preference = LZ4 /\ Lz4Signed
    /\ lz4Tool.version = <<>>
    /\ ZstdSigned /\ zstdTool.version = <<1, 4>>
    /\ outcome = Return(LZ4)

(* C3: off Windows, lz4 not selected, preference not gzip, zstd output      *)
(* carrying the signature: the result is zstd exactly when a version token  *)
(* is extracted and is at least 1.3.2, and zstd (without long) otherwise.   *)
C3_ZstdByVersion ==
    (NegotiationOver /\ platform # "win32" /\ preference # GZIP
        /\ StartsOf("zstd") # {} /\ ZstdSigned)
        => LET token == zstdVersionRegex(trim(ZstdStdout(zstdTool)))
               parts == SplitDots(token.text)
               v == [k \in DOMAIN parts |-> ParseInt(parts[k])]
           IN  compressionMethod =
                   IF token.found /\ AtLeast132(v) THEN ZSTD ELSE ZSTD_WITHOUT_LONG

(* C4: negotiation never aborts: once it is over it has returned one of the *)
(* four methods, and gzip when neither probe found its tool.                *)
C4_NeverAborts ==
    NegotiationOver
        => /\ compressionMethod \in CompressionMethod
           /\ (~Lz4Signed /\ ~ZstdSigned) => compressionMethod = GZIP

C6_UnknownTagRejected ==
    (op = "extractTar" /\ input.method \notin CompressionMethod)
        => /\ outcome.kind = "throw"
           /\ outcome.error = "Error: unrecognized compression method"
           /\ tarArgv = <<>>
           /\ StartsOf("tar") = {}

(* C7: when createTar returns M, one tar was run, started after every probe *)
(* of the negotiation had ended, with the flags of M's row, and M is the    *)
(* value negotiation returned; the tag the caller persists names the        *)
(* encoding of the archive.                                                 *)
C7_ReturnedMethodIsApplied ==
    /\ (op = "createTar" /\ outcome.kind = "return")
         => /\ Cardinality(StartsOf("tar")) = 1
            /\ \A t \in StartsOf("tar") : \A cmd \in {"lz4", "zstd"} :
                 /\ \A i \in StartsOf(cmd) : i < t /\ \E j \in EndsOf(cmd) : i < j /\ j < t
                 /\ Cardinality(StartsOf(cmd)) <= 1
            /\ outcome.value \in CompressionMethod
            /\ outcome.value = compressionMethod
            /\ tarArgv[1] = "-c"
            /\ CompressionArgsOf(tarArgv) = CreationFlags[outcome.value]
    /\ archive.exists
         => (archive.tag \in CompressionMethod
             /\ archive.encodedWith = CreationFlags[archive.tag])

C7_Witness ==
    /\ op = "createTar" /\ outcome = Return(ZSTD)
    /\ StartsOf("lz4") # {} /\ StartsOf("zstd") # {}
    /\ archive.exists /\ archive.tag = LZ4

(* C8: a tar that exits non-zero ends createTar and extractTar in an error, *)
(* with tar run once: no retry, no second method.                           *)
C8_TarFailureIsFinal ==
    (tarResult.ended /\ tarResult.exitCode # 0)
        => /\ pc = "done"
           /\ outcome.kind = "throw"
           /\ outcome.value \notin CompressionMethod
           /\ Cardinality(StartsOf("tar")) = 1
           /\ Cardinality(EndsOf("tar")) = 1

C8_Witness ==
    /\ op = "createTar" /\ compressionMethod = ZSTD
    /\ tarResult.ended /\ tarResult.exitCode = 2
    /\ outcome.kind = "throw"

(* C9 as claimed: the decoder selected for M inverts the encoder selected   *)
(* for M, and extracting with a method of another program family than the   *)
(* one that created the archive ends in an error.                           *)
C9_MismatchIsDecodeError ==
    (op = "extractTar" /\ archive.exists /\ tarResult.ended)
        => LET dec == CompressionArgsOf(tarArgv)
           IN  /\ input.method = archive.tag
                    => (Family(dec) = Family(archive.encodedWith)
                        /\ LongWindow(dec) = LongWindow(archive.encodedWith))
               /\ MethodFamily(input.method) # MethodFamily(archive.tag)
                    => outcome.kind = "throw"

(* C9 amended: the decoder selected for M is of the program family of the   *)
(* encoder selected for M, with --long=30 on both sides or on neither; with *)
(* a method of another family extractTar hands tar a decoder of another     *)
(* family than the archive's encoder, and it fails exactly when tar exits   *)
(* non-zero.                                                                *)
C9_DecoderInvertsEncoder ==
    (op = "extractTar" /\ archive.exists /\ tarArgv # <<>>)
        => LET dec == CompressionArgsOf(tarArgv)
           IN  /\ input.method = archive.tag
                    => (Family(dec) = Family(archive.encodedWith)
                        /\ LongWindow(dec) = LongWindow(archive.encodedWith))
               /\ MethodFamily(input.method) # MethodFamily(archive.tag)
                    => Family(dec) # Family(archive.encodedWith)
               /\ Family(dec) = MethodFamily(input.method)
               /\ tarResult.ended
                    => (outcome.kind = "throw" <=> tarResult.exitCode # 0)

C9_Witness ==
    /\ op = "extractTar" /\ archive.exists /\ archive.tag = ZSTD
    /\ input.method = ZSTD
    /\ tarResult.ended /\ tarResult.exitCode = 0
    /\ outcome = Return("void")

(* C10: extractTar runs no probe, and the command it builds depends on its  *)
(* arguments alone: it is the command the previous extractTar built for the *)
(* same arguments, whatever host that one ran on.                           *)
C10_RestoreNeverNegotiates ==
    op = "extractTar"
        => /\ ProbeStarts = {}
           /\ compressionMethod = NULL
           /\ (prevExtract.exists /\ tarArgv # <<>>)
                => /\ prevExtract.input = input => prevExtract.argv = tarArgv
                   /\ prevExtract.input.method = input.method
                        => CompressionArgsOf(prevExtract.argv) = CompressionArgsOf(tarArgv)
           /\ (prevExtract.exists /\ prevExtract.input = input) => tarArgv # <<>>

C10_Witness ==
    /\ op = "extractTar" /\ tarArgv # <<>>
    /\ prevExtract.exists /\ prevExtract.input = input
    /\ input.method = ZSTD
    /\ prevExtract.platform = "linux" /\ platform = "win32"
    /\ preference = GZIP /\ ~ZstdSigned

====
